---- MODULE Spec2Model ----
(***************************************************************************)
(* Model of the Telegram signal extractor                                  *)
(* (telegram_signal_extractor/notebooks_telegram/telegram_extractor.py):   *)
(* field parsing, classification, duplicate detection, and the run that    *)
(* merges the accepted signals into the dataset file.                      *)
(*                                                                         *)
(* Prices are decimal texts with five fractional digits, written as the    *)
(* integer number of 1e-5 units (100000 is "1.00000").  Python turns them  *)
(* into binary64 floats; the float layer below computes on 53-bit          *)
(* mantissas held as bit sequences (most significant bit first).           *)
(* Timestamps are seconds since 2023-01-01T00:00:00.                       *)
(***************************************************************************)
EXTENDS Integers, Sequences, FiniteSets, TLC

\* ------------------------------------------------------------------------
\* binary64 arithmetic
\* ------------------------------------------------------------------------
MantBits == 53
DecimalUnit == 100000
LimbBits == 12
LimbBase == 2 ^ LimbBits
ScaleLimbs == 6

Min(a, b) == IF a < b THEN a ELSE b
Max(a, b) == IF a < b THEN b ELSE a

Zeros(k) == [i \in 1..k |-> 0]

\* the three base-4096 digits of n, most significant first (0 <= n < 2^30)
NatToLimbs(n) ==
    << n \div (LimbBase * LimbBase), (n \div LimbBase) % LimbBase, n % LimbBase >>

LimbsToBits(l) ==
    [j \in 1..(LimbBits * Len(l)) |->
        (l[((j - 1) \div LimbBits) + 1] \div 2 ^ (LimbBits - 1 - ((j - 1) % LimbBits))) % 2]

RECURSIVE BitsValue(_)
BitsValue(b) ==
    IF b = <<>> THEN 0
    ELSE 2 * BitsValue(SubSeq(b, 1, Len(b) - 1)) + b[Len(b)]

\* b is a bit sequence whose length is a multiple of LimbBits
BitsToLimbs(b) ==
    [k \in 1..(Len(b) \div LimbBits) |->
        BitsValue(SubSeq(b, LimbBits * (k - 1) + 1, LimbBits * k))]

\* b without its leading zeros
Strip(b) ==
    IF \A i \in 1..Len(b) : b[i] = 0 THEN <<>>
    ELSE LET k == CHOOSE i \in 1..Len(b) :
                      b[i] = 1 /\ \A j \in 1..(i - 1) : b[j] = 0
         IN  SubSeq(b, k, Len(b))

\* long division of a limb sequence by a small divisor: quotient limbs, remainder
RECURSIVE DivLimbs(_, _, _, _, _)
DivLimbs(l, d, i, q, r) ==
    IF i > Len(l) THEN [q |-> q, r |-> r]
    ELSE LET cur == r * LimbBase + l[i]
         IN  DivLimbs(l, d, i + 1, Append(q, cur \div d), cur % d)

\* b + 1 on a bit sequence
IncBits(b) ==
    IF \A i \in 1..Len(b) : b[i] = 1 THEN <<1>> \o Zeros(Len(b))
    ELSE LET k == CHOOSE i \in 1..Len(b) :
                      b[i] = 0 /\ \A j \in (i + 1)..Len(b) : b[j] = 1
         IN  [i \in 1..Len(b) |-> IF i < k THEN b[i] ELSE IF i = k THEN 1 ELSE 0]

\* a - b - borrow on limb sequences of one length, a >= b
RECURSIVE SubLimbs(_, _, _)
SubLimbs(a, b, borrow) ==
    IF a = <<>> THEN <<>>
    ELSE LET n == Len(a)
             d == a[n] - b[n] - borrow
         IN  Append(SubLimbs(SubSeq(a, 1, n - 1), SubSeq(b, 1, n - 1),
                             IF d < 0 THEN 1 ELSE 0),
                    IF d < 0 THEN d + LimbBase ELSE d)

\* a < b on sequences of one length, most significant digit first
SeqLess(a, b) ==
    \E i \in 1..Len(a) : a[i] < b[i] /\ \A j \in 1..(i - 1) : a[j] = b[j]

FZero == [m |-> <<>>, e |-> 0]

\* the double nearest to b * 2^e (plus a nonzero fraction below 2^e when
\* sticky), ties to even; b has no leading zero and is not empty
RoundToDouble(b, sticky, e) ==
    LET n == Len(b)
    IN  IF n <= MantBits
        THEN [m |-> b \o Zeros(MantBits - n), e |-> e - (MantBits - n)]
        ELSE LET top   == SubSeq(b, 1, MantBits)
                 guard == b[MantBits + 1]
                 st    == sticky \/ (\E i \in (MantBits + 2)..n : b[i] = 1)
                 up    == guard = 1 /\ (st \/ top[MantBits] = 1)
                 inc   == IF up THEN IncBits(top) ELSE top
             IN  IF Len(inc) > MantBits
                 THEN [m |-> SubSeq(inc, 1, MantBits), e |-> e + (n - MantBits) + 1]
                 ELSE [m |-> inc, e |-> e + (n - MantBits)]

\* float("<n / 1e5>"): the double nearest to the decimal text
float(n) ==
    IF n = 0 THEN FZero
    ELSE LET d == DivLimbs(NatToLimbs(n) \o Zeros(ScaleLimbs), DecimalUnit, 1, <<>>, 0)
         IN  RoundToDouble(Strip(LimbsToBits(d.q)), d.r # 0,
                           0 - LimbBits * ScaleLimbs)

\* abs(x - y) on doubles
FAbsSub(x, y) ==
    IF x.m = <<>> THEN y
    ELSE IF y.m = <<>> THEN x
    ELSE LET emin == Min(x.e, y.e)
             A0   == x.m \o Zeros(x.e - emin)
             B0   == y.m \o Zeros(y.e - emin)
             n    == LimbBits * ((Max(Len(A0), Len(B0)) + LimbBits - 1) \div LimbBits)
             A    == BitsToLimbs(Zeros(n - Len(A0)) \o A0)
             B    == BitsToLimbs(Zeros(n - Len(B0)) \o B0)
             D    == IF SeqLess(A, B) THEN SubLimbs(B, A, 0) ELSE SubLimbs(A, B, 0)
             S    == Strip(LimbsToBits(D))
         IN  IF S = <<>> THEN FZero ELSE RoundToDouble(S, FALSE, emin)

\* x < y on non-negative doubles
FLess(x, y) ==
    IF y.m = <<>> THEN FALSE
    ELSE IF x.m = <<>> THEN TRUE
    ELSE x.e < y.e \/ (x.e = y.e /\ SeqLess(x.m, y.m))

\* ------------------------------------------------------------------------
\* values
\* ------------------------------------------------------------------------
\* the 0.0001 of is_duplicate_signal, in 1e-5 units
PriceTolerance == 10
\* time_tolerance_minutes=60
time_tolerance_default == 60
\* datetime(2023, 1, 1), the cursor when no dataset exists
DefaultCursor == 0

\* prices that occur in messages and datasets (decimal texts, 1e-5 units)
P_1_00000 == 1 * DecimalUnit
P_1_00002 == P_1_00000 + 2
P_1_00005 == P_1_00000 + 5
P_1_00010 == P_1_00000 + 10
P_100_00000 == 100 * DecimalUnit
P_100_00010 == P_100_00000 + 10
TP40 == 11 * (DecimalUnit \div 10)
TP60 == 12 * (DecimalUnit \div 10)
TP80 == 13 * (DecimalUnit \div 10)
TP100 == 14 * (DecimalUnit \div 10)
Prices ==
    {0, P_1_00000, P_1_00002, P_1_00005, P_1_00010, P_100_00000, P_100_00010,
     TP40, TP60, TP80, TP100}

\* abs(float(a) - float(b)) < 0.0001, tabulated once over Prices
NearTable ==
    [a \in Prices |-> [b \in Prices |->
        FLess(FAbsSub(float(a), float(b)), float(PriceTolerance))]]

CanonicalTps == <<"tp_40", "tp_60", "tp_80", "tp_100">>
TpColumns == {"tp_20", "tp_40", "tp_60", "tp_80", "tp_100"}
RequiredColumns == {"symbol", "entry", "tp_40", "tp_60", "tp_80", "tp_100"}
TextColumns == {"symbol", "direction"}
NumberColumns == TpColumns \cup {"entry", "hit_price"}
AllColumns == TextColumns \cup NumberColumns \cup {"timestamp"}
\* the column order of a written table
ColumnOrder ==
    <<"symbol", "direction", "entry", "tp_20", "tp_40", "tp_60", "tp_80", "tp_100",
      "hit_price", "timestamp">>

\* a timestamp is an ISO text (msg.date.isoformat()), a pandas Timestamp,
\* the text of a Timestamp in a CSV file, or missing
NaT == [kind |-> "nan", t |-> 0]
IsoText(t) == [kind |-> "iso", t |-> t]
Timestamp(t) == [kind |-> "ts", t |-> t]
CsvText(t) == [kind |-> "csv", t |-> t]

\* the missing value of a column (NaN; an empty field in a CSV file)
NaN(c) == IF c \in TextColumns THEN "" ELSE IF c = "timestamp" THEN NaT ELSE 0 - 1
isna(c, v) == v = NaN(c)

\* pd.to_datetime on one value
to_datetime(v) == IF v.kind = "nan" THEN NaT ELSE Timestamp(v.t)

Range(s) == {s[i] : i \in 1..Len(s)}

\* ------------------------------------------------------------------------
\* parse_signal
\* ------------------------------------------------------------------------
\* A message text is the record of what the patterns can find in it: the
\* token after "#" before "/USDT" ("" when the pattern does not match), the
\* first Long/Short word as written, the decimal after "Entry", the
\* "<decimal> (<n>% of profit)" matches in order, the decimal after "Price".
NoNumber == 0 - 1

capitalize(w) ==
    IF w \in {"long", "LONG", "Long"} THEN "Long"
    ELSE IF w \in {"short", "SHORT", "Short"} THEN "Short"
    ELSE w

TpKey(percent) ==
    CASE percent = 20 -> "tp_20"
      [] percent = 40 -> "tp_40"
      [] percent = 60 -> "tp_60"
      [] percent = 80 -> "tp_80"
      [] percent = 100 -> "tp_100"

\* the last match of a percentage wins
TpValue(tps, key) ==
    LET hits == {i \in 1..Len(tps) : TpKey(tps[i][2]) = key}
        last == CHOOSE i \in hits : \A j \in hits : j <= i
    IN  tps[last][1]

parse_signal(text) ==
    LET keys == (IF text.symbol # "" THEN {"symbol"} ELSE {})
                \cup (IF text.direction # "" THEN {"direction"} ELSE {})
                \cup (IF text.entry # NoNumber THEN {"entry"} ELSE {})
                \cup {TpKey(text.tps[i][2]) : i \in 1..Len(text.tps)}
                \cup (IF text.price # NoNumber THEN {"hit_price"} ELSE {})
    IN  [k \in keys |->
            CASE k = "symbol" -> text.symbol \o "/USDT"
              [] k = "direction" -> capitalize(text.direction)
              [] k = "entry" -> text.entry
              [] k = "hit_price" -> text.price
              [] OTHER -> TpValue(text.tps, k)]

\* parsed["timestamp"] = msg["timestamp"]
WithTimestamp(parsed, ts) ==
    [k \in DOMAIN parsed \cup {"timestamp"} |->
        IF k = "timestamp" THEN ts ELSE parsed[k]]

\* ------------------------------------------------------------------------
\* classification (the if / elif / else of main's loop)
\* ------------------------------------------------------------------------
\* variant: a new signal needs all four canonical levels
IsNewSignal_all_levels(parsed) ==
    "entry" \in DOMAIN parsed /\ \A k \in Range(CanonicalTps) : k \in DOMAIN parsed
IsNewSignal(parsed) ==
    "entry" \in DOMAIN parsed /\ \E k \in DOMAIN parsed : k \in TpColumns

IsUpdate(parsed) ==
    /\ "symbol" \in DOMAIN parsed
    /\ "entry" \notin DOMAIN parsed
    /\ "hit_price" \in DOMAIN parsed

Classify(parsed) ==
    IF IsNewSignal(parsed) THEN "NewSignal"
    ELSE IF IsUpdate(parsed) THEN "Update"
    ELSE "Unclassified"

\* ------------------------------------------------------------------------
\* data frames: the set of columns and the rows; a row gives every column
\* of AllColumns a value, NaN where the frame has no such column or value
\* ------------------------------------------------------------------------
EmptyFrame == [columns |-> {}, rows |-> <<>>]

RowOf(d) == [c \in AllColumns |-> IF c \in DOMAIN d THEN d[c] ELSE NaN(c)]

\* pd.DataFrame(list of dicts)
DataFrame(dicts) ==
    [columns |-> UNION {DOMAIN dicts[i] : i \in 1..Len(dicts)},
     rows    |-> [i \in 1..Len(dicts) |-> RowOf(dicts[i])]]

\* DataFrame.empty
empty(df) == df.columns = {} \/ df.rows = <<>>

\* ------------------------------------------------------------------------
\* is_duplicate_signal
\* ------------------------------------------------------------------------
Near(a, b) == NearTable[a][b]

TimeWithin(h, new_time, minutes) ==
    /\ h.kind # "nan"
    /\ LET d == h.t - new_time.t
       IN  (IF d < 0 THEN 0 - d ELSE d) <= minutes * 60

get(d, k, default) == IF k \in DOMAIN d THEN d[k] ELSE default

RowMatches(row, new_signal, minutes) ==
    /\ "symbol" \in DOMAIN new_signal
    /\ row["symbol"] = new_signal["symbol"]
    /\ "direction" \in DOMAIN new_signal
    /\ row["direction"] = new_signal["direction"]
    /\ ~isna("entry", row["entry"])
    /\ Near(row["entry"], get(new_signal, "entry", 0))
    /\ TimeWithin(to_datetime(row["timestamp"]),
                  to_datetime(new_signal["timestamp"]), minutes)

TpMatches(row, new_signal) ==
    \A i \in 1..Len(CanonicalTps) :
        LET tp == CanonicalTps[i] IN
        tp \in DOMAIN new_signal =>
            ~isna(tp, row[tp]) /\ Near(row[tp], new_signal[tp])

\* variant: returns filtered.empty
is_duplicate_signal_inverted(new_signal, existing_df, minutes) ==
    IF empty(existing_df) THEN FALSE
    ELSE \A i \in 1..Len(existing_df.rows) :
            ~(RowMatches(existing_df.rows[i], new_signal, minutes)
              /\ TpMatches(existing_df.rows[i], new_signal))
is_duplicate_signal(new_signal, existing_df, minutes) ==
    IF empty(existing_df) THEN FALSE
    ELSE LET Keep(row) == RowMatches(row, new_signal, minutes)
                          /\ TpMatches(row, new_signal)
             filtered == SelectSeq(existing_df.rows, Keep)
         IN  filtered # <<>>

\* line 85 raises TypeError when no row of a non-empty history has a
\* timestamp: the column then converts to timezone-naive NaT, and new_time
\* (from msg.date, in UTC) is timezone-aware
is_duplicate_signal_raises(new_signal, existing_df) ==
    /\ ~empty(existing_df)
    /\ \A i \in 1..Len(existing_df.rows) : existing_df.rows[i]["timestamp"].kind = "nan"

\* ------------------------------------------------------------------------
\* files and frames of the run
\* ------------------------------------------------------------------------
\* A CSV file is the table read_csv makes of it: a line that ends early
\* reads as a row with NaN in the columns it lacks.  A file with no header
\* line has no columns.
NoFile == [exists |-> FALSE, columns |-> {}, rows |-> <<>>]
EmptyFile == [exists |-> TRUE, columns |-> {}, rows |-> <<>>]

\* DataFrame.to_csv(path, index=False), completed
to_csv(df) ==
    [exists  |-> TRUE,
     columns |-> df.columns,
     rows    |-> [i \in 1..Len(df.rows) |->
                    [df.rows[i] EXCEPT !["timestamp"] =
                        IF @.kind = "nan" THEN NaT ELSE CsvText(@.t)]]]

\* pd.read_csv(path) of a file that has a header line
read_csv(file) == [columns |-> file.columns, rows |-> file.rows]

\* pd.to_datetime(existing_signals['timestamp']).max()
MaxTimestamp(df) ==
    LET ts == {df.rows[i]["timestamp"].t :
                  i \in {j \in 1..Len(df.rows) : df.rows[j]["timestamp"].kind # "nan"}}
    IN  IF ts = {} THEN NaT
        ELSE Timestamp(CHOOSE t \in ts : \A u \in ts : u <= t)

\* what a write that fails part-way leaves: the header and the first k
\* rows, the next row possibly cut after some of its fields
TornKeeps == {3}
CutRow(row, keep) ==
    [c \in AllColumns |->
        IF \E i \in 1..keep : ColumnOrder[i] = c THEN row[c] ELSE NaN(c)]
TornOutcomes(file) ==
    {EmptyFile} \cup
    {[file EXCEPT !.rows = SubSeq(file.rows, 1, k)] : k \in 0..(Len(file.rows) - 1)} \cup
    {[file EXCEPT !.rows = Append(SubSeq(file.rows, 1, k), CutRow(file.rows[k + 1], keep))] :
        k \in 0..(Len(file.rows) - 1), keep \in TornKeeps}

\* DataFrame.dropna(subset=...) raises KeyError for a column the frame lacks
dropna_raises(df, subset) == ~(subset \subseteq df.columns)
dropna(df, subset) ==
    LET Complete(row) == \A c \in subset : ~isna(c, row[c])
    IN  [df EXCEPT !.rows = SelectSeq(@, Complete)]

Tokens == {"BTC", "ETH"}
\* .str.replace("/", "").str.upper() on "<TOKEN>/USDT"
NormalizeSymbol(sym) ==
    IF \E tok \in Tokens : sym = tok \o "/USDT"
    THEN (CHOOSE tok \in Tokens : sym = tok \o "/USDT") \o "USDT"
    ELSE sym

\* lines 118-119 of main
Normalize(df) ==
    [df EXCEPT !.rows = [i \in 1..Len(@) |->
        [@[i] EXCEPT !["symbol"] = NormalizeSymbol(@),
                     !["timestamp"] = to_datetime(@)]]]

\* pd.concat([a, b], ignore_index=True)
concat(a, b) == [columns |-> a.columns \cup b.columns, rows |-> a.rows \o b.rows]

RECURSIVE Pick(_, _, _)
Pick(rows, keep, i) ==
    IF i > Len(rows) THEN <<>>
    ELSE (IF i \in keep THEN <<rows[i]>> ELSE <<>>) \o Pick(rows, keep, i + 1)

\* DataFrame.drop_duplicates(): the first of equal rows stays
\* variant: keep=False, every copy of a repeated row goes
drop_duplicates_keep_none(df) ==
    [df EXCEPT !.rows =
        Pick(@, {i \in 1..Len(@) : \A j \in 1..Len(@) : j # i => @[j] # @[i]}, 1)]
drop_duplicates(df) ==
    [df EXCEPT !.rows =
        Pick(@, {i \in 1..Len(@) : \A j \in 1..(i - 1) : @[j] # @[i]}, 1)]

\* the table line 123 writes as the backup
\* variant: the frame of new rows is written instead
backup_table_of_new_rows(existing, new_rows) == to_csv(new_rows)
backup_table(existing, new_rows) == to_csv(existing)

\* ------------------------------------------------------------------------
\* the message source
\* ------------------------------------------------------------------------
MaxBatch == 2
MaxRuns == 2
Times == {600, 1800}

FourTps == <<<<TP40, 40>>, <<TP60, 60>>, <<TP80, 80>>, <<TP100, 100>>>>
\* "#BTC/USDT Long Entry: 1.00000 ... 1.1 (40% of profit) ... 1.4 (100% of profit)"
TextSignal ==
    [symbol |-> "BTC", direction |-> "Long", entry |-> P_1_00000, tps |-> FourTps,
     price |-> NoNumber]
\* the same signal re-posted with entry 1.00002
TextResent == [TextSignal EXCEPT !.entry = P_1_00002]
\* a signal without its 60% level
TextNoTp60 ==
    [TextSignal EXCEPT !.tps = <<<<TP40, 40>>, <<TP80, 80>>, <<TP100, 100>>>>]
\* a signal whose symbol pattern does not match
TextNoSymbol == [TextSignal EXCEPT !.symbol = ""]
\* a signal with a 20% level too, direction in lower case
TextEth ==
    [symbol |-> "ETH", direction |-> "short", entry |-> P_100_00000,
     tps |-> <<<<TP40, 20>>>> \o FourTps, price |-> NoNumber]
\* "#BTC/USDT ... Price: 1.1"
TextUpdate ==
    [symbol |-> "BTC", direction |-> "", entry |-> NoNumber, tps |-> <<>>,
     price |-> TP40]
\* nothing recognizable
TextOther ==
    [symbol |-> "", direction |-> "", entry |-> NoNumber, tps |-> <<>>,
     price |-> NoNumber]
Texts ==
    {TextSignal, TextResent, TextNoTp60, TextNoSymbol, TextEth, TextUpdate, TextOther}

RawMessages == {[text |-> x, timestamp |-> IsoText(t)] : x \in Texts, t \in Times}

\* iter_messages(GROUP_ID, offset_date=last_timestamp, reverse=True): the
\* messages after the cursor, oldest first
After(t, cursor) == cursor.kind = "nan" \/ t > cursor.t
Batches(cursor) ==
    {b \in UNION {[1..n -> RawMessages] : n \in 0..MaxBatch} :
        /\ \A i \in 1..Len(b) : After(b[i].timestamp.t, cursor)
        /\ \A i \in 1..(Len(b) - 1) : b[i].timestamp.t <= b[i + 1].timestamp.t}

\* ------------------------------------------------------------------------
\* state
\* ------------------------------------------------------------------------
VARIABLES
    signals_csv,        \* ../data/telegram_signals_clean.csv
    raw_file,           \* ../data/raw/raw_messages.json
    backup_file,        \* ../data/backups/signals_backup_<start of this run>.csv
    log_file,           \* ../logs/extractor_log.txt, a sequence of lines
    pc,                 \* where the run is
    error,              \* the exception that ended the run, "none" otherwise
    runs,               \* runs started so far
    pre_run_csv,        \* signals_csv as it was when the run started
    pre_run_raw,        \* raw_file as it was when the run started
    existing_signals,   \* module-level frame loaded at start
    last_timestamp,     \* module-level cursor
    signal_data,        \* main's lists
    update_data,
    others,
    df_signals,         \* main's frame
    candidate,          \* arguments and result of a call of is_duplicate_signal
    history,
    duplicate,
    returned,
    fields,             \* a parsed mapping and the branch main's loop takes for it
    category

fileVars == <<signals_csv, raw_file, backup_file, log_file>>
runVars == <<pc, error, runs, pre_run_csv, pre_run_raw, existing_signals,
             last_timestamp, signal_data, update_data, others, df_signals>>
dupVars == <<candidate, history, duplicate, returned>>
clsVars == <<fields, category>>
vars == <<fileVars, runVars, dupVars, clsVars>>

NoRaw == [state |-> "absent", msgs |-> <<>>]
TornRaw == [state |-> "torn", msgs |-> <<>>]

IOFailures ==
    {"SourceUnavailable", "RawWriteFailure", "DownloadLogFailure", "BackupFailure",
     "WriteFailure", "MergeLogFailure"}

InitRun ==
    /\ signals_csv = NoFile
    /\ raw_file = NoRaw
    /\ backup_file = NoFile
    /\ log_file = <<>>
    /\ pc = "idle"
    /\ error = "none"
    /\ runs = 0
    /\ pre_run_csv = NoFile
    /\ pre_run_raw = NoRaw
    /\ existing_signals = EmptyFrame
    /\ last_timestamp = Timestamp(DefaultCursor)
    /\ signal_data = <<>>
    /\ update_data = <<>>
    /\ others = <<>>
    /\ df_signals = EmptyFrame

InitDupIdle ==
    /\ candidate = [timestamp |-> IsoText(0)]
    /\ history = EmptyFrame
    /\ duplicate = FALSE
    /\ returned = FALSE

InitClsIdle ==
    /\ fields = [timestamp |-> IsoText(0)]
    /\ category = ""

Init == InitRun /\ InitDupIdle /\ InitClsIdle

Abort(e) == pc' = "aborted" /\ error' = e

\* ------------------------------------------------------------------------
\* module level: load the dataset and derive the cursor (lines 21-32)
\* ------------------------------------------------------------------------
StartRun ==
    /\ pc \in {"idle", "done", "aborted"}
    /\ runs < MaxRuns
    /\ runs' = runs + 1
    /\ pre_run_csv' = signals_csv
    /\ pre_run_raw' = raw_file
    /\ backup_file' = NoFile
    /\ signal_data' = <<>>
    /\ update_data' = <<>>
    /\ others' = <<>>
    /\ df_signals' = EmptyFrame
    /\ UNCHANGED <<signals_csv, raw_file, log_file>>

Load ==
    /\ StartRun
    /\ ~(signals_csv.exists /\ signals_csv.columns = {})
    /\ IF signals_csv.exists
       THEN /\ existing_signals' = read_csv(signals_csv)
            /\ last_timestamp' = MaxTimestamp(read_csv(signals_csv))
       ELSE /\ existing_signals' = EmptyFrame
            /\ last_timestamp' = Timestamp(DefaultCursor)
    /\ pc' = "fetch"
    /\ error' = "none"
    /\ UNCHANGED <<dupVars, clsVars>>

\* read_csv of a file without a header line raises EmptyDataError
LoadFails ==
    /\ StartRun
    /\ signals_csv.exists /\ signals_csv.columns = {}
    /\ existing_signals' = EmptyFrame
    /\ last_timestamp' = Timestamp(DefaultCursor)
    /\ Abort("EmptyDataError")
    /\ UNCHANGED <<dupVars, clsVars>>

\* ------------------------------------------------------------------------
\* collect_messages (lines 35-49)
\* ------------------------------------------------------------------------
DownloadedLine(n) == [event |-> "downloaded", count |-> n]
MergedLine(n) == [event |-> "merged", count |-> n]

collect_messages ==
    /\ pc = "fetch"
    /\ \E messages \in Batches(last_timestamp) :
          /\ raw_file' = [state |-> "json", msgs |-> messages]
          /\ log_file' = Append(log_file, DownloadedLine(Len(messages)))
    /\ pc' = "parse"
    /\ UNCHANGED <<signals_csv, backup_file, error, runs, pre_run_csv, pre_run_raw,
                   existing_signals, last_timestamp, signal_data, update_data,
                   others, df_signals, dupVars, clsVars>>

\* the client or iter_messages raises: nothing was written
collect_messages_fetch_fails ==
    /\ pc = "fetch"
    /\ Abort("SourceUnavailable")
    /\ UNCHANGED <<fileVars, runs, pre_run_csv, pre_run_raw, existing_signals,
                   last_timestamp, signal_data, update_data, others, df_signals,
                   dupVars, clsVars>>

\* open(raw_path, "w") / json.dump raises
collect_messages_raw_write_fails ==
    /\ pc = "fetch"
    /\ raw_file' \in {raw_file, TornRaw}
    /\ Abort("RawWriteFailure")
    /\ UNCHANGED <<signals_csv, backup_file, log_file, runs, pre_run_csv, pre_run_raw,
                   existing_signals, last_timestamp, signal_data, update_data,
                   others, df_signals, dupVars, clsVars>>

\* the raw batch is written, the log append raises
collect_messages_log_fails ==
    /\ pc = "fetch"
    /\ \E messages \in Batches(last_timestamp) :
          raw_file' = [state |-> "json", msgs |-> messages]
    /\ Abort("DownloadLogFailure")
    /\ UNCHANGED <<signals_csv, backup_file, log_file, runs, pre_run_csv, pre_run_raw,
                   existing_signals, last_timestamp, signal_data, update_data,
                   others, df_signals, dupVars, clsVars>>

\* ------------------------------------------------------------------------
\* main (lines 93-129)
\* ------------------------------------------------------------------------
parsed_messages(raw_messages) ==
    [i \in 1..Len(raw_messages) |->
        WithTimestamp(parse_signal(raw_messages[i].text), raw_messages[i].timestamp)]

\* the loop reaches a message classified NewSignal and line 108 raises
DetectorRaises ==
    \E i \in 1..Len(raw_file.msgs) :
        LET p == parsed_messages(raw_file.msgs)[i]
        IN  IsNewSignal(p) /\ is_duplicate_signal_raises(p, existing_signals)

\* lines 96-113: read the raw batch, parse, classify, filter duplicates
main_parse_classify ==
    /\ pc = "parse"
    /\ ~DetectorRaises
    /\ LET parsed == parsed_messages(raw_file.msgs)
           Accepted(p) == Classify(p) = "NewSignal"
                          /\ ~is_duplicate_signal(p, existing_signals,
                                                  time_tolerance_default)
           IsUpd(p) == Classify(p) = "Update"
           IsOther(p) == Classify(p) = "Unclassified"
       IN  /\ signal_data' = SelectSeq(parsed, Accepted)
           /\ update_data' = SelectSeq(parsed, IsUpd)
           /\ others' = SelectSeq(parsed, IsOther)
    /\ pc' = "frame"
    /\ UNCHANGED <<fileVars, error, runs, pre_run_csv, pre_run_raw, existing_signals,
                   last_timestamp, df_signals, dupVars, clsVars>>

main_parse_type_error ==
    /\ pc = "parse"
    /\ DetectorRaises
    /\ Abort("TypeError")
    /\ UNCHANGED <<fileVars, runs, pre_run_csv, pre_run_raw, existing_signals,
                   last_timestamp, signal_data, update_data, others, df_signals,
                   dupVars, clsVars>>

\* lines 115-119
main_frame ==
    /\ pc = "frame"
    /\ ~dropna_raises(DataFrame(signal_data), RequiredColumns)
    /\ df_signals' = Normalize(dropna(DataFrame(signal_data), RequiredColumns))
    /\ pc' = "merge"
    /\ UNCHANGED <<fileVars, error, runs, pre_run_csv, pre_run_raw, existing_signals,
                   last_timestamp, signal_data, update_data, others, dupVars, clsVars>>

\* line 116 raises KeyError: the frame lacks a column of the subset
main_frame_key_error ==
    /\ pc = "frame"
    /\ dropna_raises(DataFrame(signal_data), RequiredColumns)
    /\ Abort("KeyError")
    /\ UNCHANGED <<fileVars, runs, pre_run_csv, pre_run_raw, existing_signals,
                   last_timestamp, signal_data, update_data, others, df_signals,
                   dupVars, clsVars>>

\* lines 122-124: the dataset exists
main_backup ==
    /\ pc = "merge"
    /\ signals_csv.exists
    /\ backup_file' = backup_table(existing_signals, df_signals)
    /\ df_signals' = drop_duplicates(concat(existing_signals, df_signals))
    /\ pc' = "write"
    /\ UNCHANGED <<signals_csv, raw_file, log_file, error, runs, pre_run_csv,
                   pre_run_raw, existing_signals, last_timestamp, signal_data,
                   update_data, others, dupVars, clsVars>>

\* line 123 raises part-way
main_backup_fails ==
    /\ pc = "merge"
    /\ signals_csv.exists
    /\ backup_file' \in {NoFile} \cup TornOutcomes(backup_table(existing_signals, df_signals))
    /\ Abort("BackupFailure")
    /\ UNCHANGED <<signals_csv, raw_file, log_file, runs, pre_run_csv,
                   pre_run_raw, existing_signals, last_timestamp, signal_data,
                   update_data, others, df_signals, dupVars, clsVars>>

\* line 122: no dataset yet
main_no_backup ==
    /\ pc = "merge"
    /\ ~signals_csv.exists
    /\ pc' = "write"
    /\ UNCHANGED <<fileVars, error, runs, pre_run_csv, pre_run_raw, existing_signals,
                   last_timestamp, signal_data, update_data, others, df_signals,
                   dupVars, clsVars>>

\* line 126, first half: to_csv opens the dataset file for writing, which
\* empties it
main_write_open ==
    /\ pc = "write"
    /\ signals_csv' = EmptyFile
    /\ pc' = "writing"
    /\ UNCHANGED <<raw_file, backup_file, log_file, error, runs, pre_run_csv,
                   pre_run_raw, existing_signals, last_timestamp, signal_data,
                   update_data, others, df_signals, dupVars, clsVars>>

\* the open raises
main_write_open_fails ==
    /\ pc = "write"
    /\ Abort("WriteFailure")
    /\ UNCHANGED <<fileVars, runs, pre_run_csv, pre_run_raw, existing_signals,
                   last_timestamp, signal_data, update_data, others, df_signals,
                   dupVars, clsVars>>

\* line 126, second half: the table is written and the file closed
main_write_rows ==
    /\ pc = "writing"
    /\ signals_csv' = to_csv(df_signals)
    /\ pc' = "log"
    /\ UNCHANGED <<raw_file, backup_file, log_file, error, runs, pre_run_csv,
                   pre_run_raw, existing_signals, last_timestamp, signal_data,
                   update_data, others, df_signals, dupVars, clsVars>>

\* a write raises after the file was emptied
main_write_rows_fails ==
    /\ pc = "writing"
    /\ signals_csv' \in TornOutcomes(to_csv(df_signals))
    /\ Abort("WriteFailure")
    /\ UNCHANGED <<raw_file, backup_file, log_file, runs, pre_run_csv,
                   pre_run_raw, existing_signals, last_timestamp, signal_data,
                   update_data, others, df_signals, dupVars, clsVars>>

\* lines 128-129
main_log ==
    /\ pc = "log"
    /\ log_file' = Append(log_file, MergedLine(Len(df_signals.rows)))
    /\ pc' = "done"
    /\ UNCHANGED <<signals_csv, raw_file, backup_file, error, runs, pre_run_csv,
                   pre_run_raw, existing_signals, last_timestamp, signal_data,
                   update_data, others, df_signals, dupVars, clsVars>>

main_log_fails ==
    /\ pc = "log"
    /\ Abort("MergeLogFailure")
    /\ UNCHANGED <<fileVars, runs, pre_run_csv, pre_run_raw, existing_signals,
                   last_timestamp, signal_data, update_data, others, df_signals,
                   dupVars, clsVars>>

Next ==
    \/ Load
    \/ LoadFails
    \/ collect_messages
    \/ collect_messages_fetch_fails
    \/ collect_messages_raw_write_fails
    \/ collect_messages_log_fails
    \/ main_parse_classify
    \/ main_parse_type_error
    \/ main_frame
    \/ main_frame_key_error
    \/ main_backup
    \/ main_backup_fails
    \/ main_no_backup
    \/ main_write_open
    \/ main_write_open_fails
    \/ main_write_rows
    \/ main_write_rows_fails
    \/ main_log
    \/ main_log_fails

Spec == Init /\ [][Next]_vars

\* ------------------------------------------------------------------------
\* calls of is_duplicate_signal on chosen arguments
\* ------------------------------------------------------------------------
MaxHistory == 1
CandidateTime == 60 * 60
DatasetColumns ==
    {"symbol", "direction", "entry", "tp_40", "tp_60", "tp_80", "tp_100", "timestamp"}

\* a candidate is what parse_signal makes of a text, with its timestamp
CandidateTexts ==
    {[symbol |-> sy, direction |-> di, entry |-> en, tps |-> tp, price |-> NoNumber] :
        sy \in {"BTC", ""}, di \in {"Long", ""},
        en \in {NoNumber, P_1_00000, P_100_00000},
        tp \in {FourTps, <<<<TP60, 60>>, <<TP80, 80>>, <<TP100, 100>>>>}}

HistoryRows ==
    {[symbol |-> sy, direction |-> di, entry |-> en, tp_20 |-> NaN("tp_20"),
      tp_40 |-> t40, tp_60 |-> TP60, tp_80 |-> TP80, tp_100 |-> TP100,
      hit_price |-> NaN("hit_price"), timestamp |-> ts] :
        sy \in {"BTC/USDT", "BTCUSDT"}, di \in {"Long", "Short"},
        en \in {P_1_00000, P_1_00005, P_1_00010, P_100_00000, P_100_00010},
        t40 \in {TP40, TP60},
        ts \in {IsoText(CandidateTime), CsvText(0), CsvText(2 * CandidateTime),
               CsvText(2 * CandidateTime + 1)}}

Histories ==
    {EmptyFrame} \cup
    {[columns |-> DatasetColumns, rows |-> rows] :
        rows \in UNION {[1..n -> HistoryRows] : n \in 1..MaxHistory}}

InitDup ==
    /\ InitRun /\ InitClsIdle
    /\ \E text \in CandidateTexts :
          candidate = WithTimestamp(parse_signal(text), IsoText(CandidateTime))
    /\ history \in Histories
    /\ duplicate = FALSE
    /\ returned = FALSE

is_duplicate_signal_call ==
    /\ ~returned
    /\ duplicate' = is_duplicate_signal(candidate, history, time_tolerance_default)
    /\ returned' = TRUE
    /\ UNCHANGED <<candidate, history, fileVars, runVars, clsVars>>

NextDup == is_duplicate_signal_call

SpecDup == InitDup /\ [][NextDup]_vars

\* ------------------------------------------------------------------------
\* the branch of main's loop on every set of parsed fields
\* ------------------------------------------------------------------------
ParseKeys ==
    {"symbol", "direction", "entry", "tp_20", "tp_40", "tp_60", "tp_80", "tp_100",
     "hit_price"}

PercentOf(key) ==
    CASE key = "tp_20" -> 20
      [] key = "tp_40" -> 40
      [] key = "tp_60" -> 60
      [] key = "tp_80" -> 80
      [] key = "tp_100" -> 100

RECURSIVE TpLines(_)
TpLines(keys) ==
    IF keys = {} THEN <<>>
    ELSE LET k == CHOOSE x \in keys : TRUE
         IN  <<<<TP40, PercentOf(k)>>>> \o TpLines(keys \ {k})

\* a text in which exactly the patterns of keys match
TextWith(keys) ==
    [symbol    |-> IF "symbol" \in keys THEN "BTC" ELSE "",
     direction |-> IF "direction" \in keys THEN "Long" ELSE "",
     entry     |-> IF "entry" \in keys THEN P_1_00000 ELSE NoNumber,
     tps       |-> TpLines(keys \cap TpColumns),
     price     |-> IF "hit_price" \in keys THEN TP40 ELSE NoNumber]

InitClassify ==
    /\ InitRun /\ InitDupIdle
    /\ \E keys \in SUBSET ParseKeys :
          fields = WithTimestamp(parse_signal(TextWith(keys)), IsoText(0))
    /\ category = ""

classify_call ==
    /\ category = ""
    /\ category' = Classify(fields)
    /\ UNCHANGED <<fields, fileVars, runVars, dupVars>>

NextClassify == classify_call

SpecClassify == InitClassify /\ [][NextClassify]_vars

\* ------------------------------------------------------------------------
\* properties
\* ------------------------------------------------------------------------
Finished == pc \in {"done", "aborted"}
\* line 126 has completed in this run
WriteCompleted == pc \in {"log", "done"} \/ (pc = "aborted" /\ error = "MergeLogFailure")
\* the run ended without an I/O failure (it ended normally or on a KeyError)
EndedWithoutIOFailure == Finished /\ runs >= 1 /\ error \in {"none", "KeyError"}

RowComplete(row) == \A c \in RequiredColumns : ~isna(c, row[c])
RecordComplete(d) == RequiredColumns \subseteq DOMAIN d

RawAt(text, t) == [text |-> text, timestamp |-> IsoText(t)]
\* the row the dataset file holds for a message
StoredRow(text, t) ==
    to_csv(Normalize(DataFrame(<<WithTimestamp(parse_signal(text), IsoText(t))>>))).rows[1]

C1_SameRun ==
    /\ ~pre_run_csv.exists
    /\ raw_file.msgs = <<RawAt(TextSignal, 600), RawAt(TextResent, 1800)>>
C1_FromHistory ==
    /\ pre_run_csv.exists
    /\ pre_run_csv.rows = <<StoredRow(TextSignal, 600)>>
    /\ raw_file.msgs = <<RawAt(TextResent, 1800)>>
C1_IsTheSignal(row) ==
    /\ row["symbol"] = "BTCUSDT"
    /\ row["direction"] = "Long"
    /\ row["entry"] \in {P_1_00000, P_1_00002}
\* C1: scenario B.  The same signal arrives twice, 20 minutes apart, the
\* entry of the second 0.00002 higher.  Whether both arrive in one run on an
\* absent dataset or the first is the stored history of the run that fetches
\* the second, the dataset file then holds exactly one row for the signal,
\* and in the second case the detector flagged the second occurrence (it
\* was not accepted).
C1_ScenarioB ==
    (EndedWithoutIOFailure /\ (C1_SameRun \/ C1_FromHistory)) =>
        /\ Cardinality({i \in 1..Len(signals_csv.rows) :
                            C1_IsTheSignal(signals_csv.rows[i])}) = 1
        /\ C1_FromHistory => signal_data = <<>>

\* C2: after a run has written the dataset file, no row of it lacks symbol,
\* entry, tp_40, tp_60, tp_80 or tp_100, rows carried over from the history
\* included.
C2_NoNullRows ==
    WriteCompleted => \A i \in 1..Len(signals_csv.rows) : RowComplete(signals_csv.rows[i])

C4_AllOrNothing ==
    (pc = "aborted" /\ error \in IOFailures) =>
        /\ signals_csv = pre_run_csv \/ signals_csv = to_csv(df_signals)
        /\ error = "SourceUnavailable" =>
               (raw_file = pre_run_raw /\ signals_csv = pre_run_csv)

\* C5: a run that accepted a record lacking a required field and met no I/O
\* failure ends normally (backup, overwrite and log line done), and no row
\* it added to the dataset file lacks a required field.
C5_MalformedDropped ==
    (EndedWithoutIOFailure /\ \E i \in 1..Len(signal_data) : ~RecordComplete(signal_data[i])) =>
        /\ pc = "done"
        /\ \A i \in 1..Len(signals_csv.rows) :
               \/ signals_csv.rows[i] \in Range(pre_run_csv.rows)
               \/ RowComplete(signals_csv.rows[i])

C6_EntryAndTp == "entry" \in DOMAIN fields /\ (DOMAIN fields \cap TpColumns) # {}
C6_UpdateShape ==
    {"symbol", "hit_price"} \subseteq DOMAIN fields /\ "entry" \notin DOMAIN fields
\* C6: the branch taken for a parsed mapping is exactly one of NewSignal,
\* Update, Unclassified; NewSignal iff entry and some tp_* key are present;
\* Update iff symbol and hit_price are present and entry is absent;
\* Unclassified otherwise.
C6_ClassifierTotal ==
    category # "" =>
        /\ category \in {"NewSignal", "Update", "Unclassified"}
        /\ category = "NewSignal" <=> C6_EntryAndTp
        /\ category = "Update" <=> (C6_UpdateShape /\ ~C6_EntryAndTp)
        /\ category = "Unclassified" <=> (~C6_EntryAndTp /\ ~C6_UpdateShape)
C6_Witness ==
    /\ category = "NewSignal"
    /\ {"symbol", "hit_price", "entry", "tp_20"} \subseteq DOMAIN fields
    /\ "tp_40" \notin DOMAIN fields

C7_WellFormed(x) == (RequiredColumns \cup {"direction", "timestamp"}) \subseteq DOMAIN x
\* C7: is_duplicate_signal(x, empty history) is false, and
\* is_duplicate_signal(x, [x]) is true when x has symbol, direction, entry,
\* the four take-profit levels and a timestamp.
C7_Reflexive ==
    returned =>
        /\ history.rows = <<>> => ~duplicate
        /\ (C7_WellFormed(candidate) /\ history = DataFrame(<<candidate>>)) => duplicate
C7_Witness ==
    /\ returned
    /\ duplicate
    /\ C7_WellFormed(candidate)
    /\ history = DataFrame(<<candidate>>)

C8_Within(a, b) == (IF a < b THEN b - a ELSE a - b) < PriceTolerance
C8_RowIsDuplicate(row) ==
    /\ "symbol" \in DOMAIN candidate /\ row["symbol"] = candidate["symbol"]
    /\ "direction" \in DOMAIN candidate /\ row["direction"] = candidate["direction"]
    /\ C8_Within(row["entry"], get(candidate, "entry", 0))
    /\ LET d == row["timestamp"].t - candidate["timestamp"].t
       IN  (IF d < 0 THEN 0 - d ELSE d) <= time_tolerance_default * 60
    /\ \A k \in Range(CanonicalTps) :
           k \in DOMAIN candidate => C8_Within(row[k], candidate[k])
\* C8: is_duplicate_signal returns true exactly when some history row has
\* the candidate's symbol and direction, an entry whose decimal value is
\* less than 0.0001 from the candidate's (0 for a candidate without entry),
\* a timestamp at most 60 minutes away, and, for each of the four levels the
\* candidate has, a level less than 0.0001 from the candidate's.
C8_ToleranceBoundaries ==
    returned =>
        (duplicate <=> \E i \in 1..Len(history.rows) : C8_RowIsDuplicate(history.rows[i]))

\* C9: once a run that found a dataset at its start has written the dataset
\* file, every row of the dataset as it was at the start is a row of the
\* file, with every value as it was.
C9_HistoryPreserved ==
    (WriteCompleted /\ pre_run_csv.exists) =>
        \A i \in 1..Len(pre_run_csv.rows) : pre_run_csv.rows[i] \in Range(signals_csv.rows)
C9_Witness ==
    /\ pc = "done"
    /\ pre_run_csv.exists
    /\ Len(pre_run_csv.rows) >= 2
    /\ Len(signals_csv.rows) > Len(pre_run_csv.rows)

\* C10: a run that met no I/O failure and accepted no record ends normally
\* (the final log line written), and the dataset file then has exactly the
\* rows it had at the start of the run.
C10_NothingToAdd ==
    (EndedWithoutIOFailure /\ signal_data = <<>>) =>
        /\ pc = "done"
        /\ log_file # <<>> /\ log_file[Len(log_file)].event = "merged"
        /\ signals_csv.rows = pre_run_csv.rows

====
